---- MODULE Spec2Model ----
(***************************************************************************)
(* Sunset-quality prediction bot (sunset_bot.py, generated by              *)
(* create_sunset_bot.sh): the scoring engine, the SQLite prediction store, *)
(* the Telegram feedback reconciler and one cron invocation of main().     *)
(*                                                                         *)
(* Numbers: Python floats are modelled as exact fixed-point integers,      *)
(* a score s is held as s * Scale, a weight w as w * 100, the optimal      *)
(* cloud fraction f as f * 100.  Time is a counter of clock ticks.         *)
(* SQL NULL / Python None is the empty tuple, a present value v is <<v>>.  *)
(* Strings that the code parses are tuples of one-character strings.       *)
(***************************************************************************)
EXTENDS Integers, Sequences, FiniteSets, TLC

\* ------------------------------------------------------------ bounds ----
MaxRecords == 2     \* rows the predictions table may hold in the model
MaxMsgs    == 2     \* updates the chat sends to the bot in the model
MaxClock   == 1     \* ticks the model's clock may count
DayLen     == 1     \* clock ticks that make one calendar day in the model
MaxRows    == 6     \* rows of a table train_model.py is started on
AuditCap   == 3     \* entries the audit log keeps (1000 in auth.js, scaled)
MaxLogged  == 5     \* logAction calls the model follows
MaxNow     == 6     \* minutes the dashboard's clock may count
MaxInflight == 2    \* requests that may await their fetch at once

\* -------------------------------------------------------- variables -----
VARIABLES
    weightFile,       \* model_weights.json: NULL when absent, else Some(weights)
    predictions,      \* rows of table predictions, in rowid order
    sqlite_sequence,  \* AUTOINCREMENT: the largest id ever assigned
    clock,            \* the wall clock, in seconds
    inbox,            \* updates Telegram holds and getUpdates returns
    next_update_id,   \* the update_id Telegram gives the next update
    outbox,           \* messages Telegram accepted from sendMessage since
                      \* the running (or last) invocation began
    pc,               \* position of the invocation of main()
    local,            \* the invocation's variables (bot fields and locals)
    status,           \* how the last invocation ended
    processed         \* update_ids process_feedback has already handled

VARIABLES
    peer,             \* a second, overlapping invocation of main(): its pc,
                      \* local and status while the other one is running
    report,           \* what the last run of train_model.py printed
    githubToken,      \* DashboardAuth.githubToken
    currentUser,      \* DashboardAuth.currentUser
    permissions,      \* DashboardAuth.permissions
    localStorage,     \* the browser's localStorage, kept across page loads
    result,           \* the last DashboardAuth call and what it returned
    cache,            \* BMSAPI.config.cache: cacheKey -> {data, timestamp}
    inflight,         \* per cacheKey, the requests awaiting their fetch
    dateNow,          \* Date.now(), in minutes
    settled           \* how the last BMSAPI.request settled

\* --------------------------------------------------------- constants ----
Scale == 100 * 100  \* fixed-point unit of a score: 5.0 is 5 * Scale

NULL == <<>>
Some(v) == <<v>>
IsNull(x) == x = NULL
Val(x) == x[1]

\* ---------------------------------------------------- weights (34-48) ---
default_weights ==
    [cloud_cover_optimal |-> 40, cloud_cover_weight |-> 300,
     humidity_weight |-> 150, visibility_weight |-> 200,
     pollution_weight |-> 100, dust_weight |-> 250]

\* model_weights.json files a human may put in place of the defaults
HeavyWeights ==
    [cloud_cover_optimal |-> 40, cloud_cover_weight |-> 900,
     humidity_weight |-> 600, visibility_weight |-> 200,
     pollution_weight |-> 300, dust_weight |-> 1000]

\* the defaults but for pollution_weight
PollutionWeights == [default_weights EXCEPT !.pollution_weight = 900]

NegativeWeights ==
    [cloud_cover_optimal |-> 50, cloud_cover_weight |-> 300,
     humidity_weight |-> 150, visibility_weight |-> 200,
     pollution_weight |-> 100, dust_weight |-> 0 - 1000]

WeightFiles == {HeavyWeights, NegativeWeights}

\* load_weights: the file when it exists, the defaults otherwise
load_weights(file) == IF IsNull(file) THEN default_weights ELSE Val(file)

\* ---------------------------------------------------- predict (55-100) --
Abs(x) == IF x < 0 THEN 0 - x ELSE x
Min(a, b) == IF a <= b THEN a ELSE b
Max(a, b) == IF a >= b THEN a ELSE b

\* weather_data.get(key, default)
Get(d, key, default) == IF key \in DOMAIN d THEN d[key] ELSE default

\* (cloud_score - 1.5): the subtracted centre is the literal 1.5
CloudTerm(w, d) ==
    LET cloud_cover == Get(d, "cloud_cover", 50)
        cloud_deviation == Abs(cloud_cover - w.cloud_cover_optimal)
        cloud_score == (100 - cloud_deviation) * w.cloud_cover_weight
    IN  cloud_score - 15000

\* a humidity term centred by the whole default weight
HumidityTermFullCentre(w, d) ==
    (100 - Get(d, "humidity", 60)) * w.humidity_weight - 15000

\* (humidity_score - 0.75)
HumidityTerm(w, d) ==
    LET humidity == Get(d, "humidity", 60)
        humidity_score == (100 - humidity) * w.humidity_weight
    IN  humidity_score - 7500

\* a visibility term centred by the whole configured weight
VisibilityTermFullWeight(w, d) ==
    (Min(Get(d, "visibility", 10000), 10000) * w.visibility_weight) \div 100
        - w.visibility_weight * 100

\* (visibility_score - 1.0); visibility is in metres, a multiple of 100
VisibilityTerm(w, d) ==
    LET visibility == Get(d, "visibility", 10000)
        visibility_score == (Min(visibility, 10000) * w.visibility_weight) \div 100
    IN  visibility_score - 10000

\* a dust term that also charges the air quality index, by pollution_weight
DustTermByIndex(w, d) ==
    LET pm25 == Get(d, "pm25", 15)
        dust_score == IF 10 <= pm25 /\ pm25 <= 35 THEN w.dust_weight * 50
                      ELSE IF pm25 < 10 THEN 0 - (w.dust_weight * 30)
                      ELSE 0 - (w.dust_weight * 50)
    IN  dust_score - w.pollution_weight * Get(d, "aqi", 3)

\* dust_score
DustTerm(w, d) ==
    LET pm25 == Get(d, "pm25", 15)
    IN  IF 10 <= pm25 /\ pm25 <= 35 THEN w.dust_weight * 50
        ELSE IF pm25 < 10 THEN 0 - (w.dust_weight * 30)
        ELSE 0 - (w.dust_weight * 50)

RawScore(w, d) ==
    5 * Scale + CloudTerm(w, d) + HumidityTerm(w, d)
              + VisibilityTerm(w, d) + DustTerm(w, d)

\* a clamp that forgot the upper end
ClampNoCeiling(score) == Max(1 * Scale, score)

\* return max(1.0, min(10.0, score))
Clamp(score) == Max(1 * Scale, Min(10 * Scale, score))

\* a score that also depends on the hour it is computed at
predictByTheClock(w, d) == Clamp(RawScore(w, d) + clock * Scale)

predict(w, d) == Clamp(RawScore(w, d))

\* ------------------------------------------ WeatherFetcher (110-155) ----
\* JSON bodies the OpenWeatherMap /weather endpoint may answer with
WeatherResponses ==
    { [clouds |-> 45,  humidity |-> 40,  visibility |-> Some(15000),
       description |-> "few clouds", temp |-> 22],
      [clouds |-> 0,   humidity |-> 90,  visibility |-> Some(2000),
       description |-> "clear sky", temp |-> 15],
      [clouds |-> 100, humidity |-> 100, visibility |-> NULL,
       description |-> "overcast clouds", temp |-> 10] }

\* JSON bodies the /air_pollution endpoint may answer with
AirResponses ==
    { [aqi |-> 2, pm2_5 |-> Some(20),  pm10 |-> Some(30)],
      [aqi |-> 1, pm2_5 |-> Some(0),   pm10 |-> NULL],
      [aqi |-> 5, pm2_5 |-> Some(500), pm10 |-> Some(600)] }

\* bodies of one sky told in different words
SkyResponses ==
    { [clouds |-> 45, humidity |-> 40, visibility |-> Some(15000),
       description |-> "few clouds", temp |-> 22],
      [clouds |-> 45, humidity |-> 40, visibility |-> Some(15000),
       description |-> "scattered clouds", temp |-> 30] }

\* a body with the PM2.5 level of the defaults under another index
IndexResponses == { [aqi |-> 2, pm2_5 |-> Some(15), pm10 |-> Some(30)] }

\* bodies /weather may answer with when the station reports no humidity:
\* 'main' carries no 'humidity' member
PartialWeatherResponses ==
    { [clouds |-> 45, visibility |-> Some(15000),
       description |-> "few clouds", temp |-> 22],
      [clouds |-> 100, visibility |-> NULL,
       description |-> "overcast clouds", temp |-> 10] }

OrElse(opt, default) == IF IsNull(opt) THEN default ELSE Val(opt)

\* the members get_current_weather subscripts: data['clouds']['all'],
\* data['main']['humidity'], data['weather'][0]['description'],
\* data['main']['temp']; a body without one of them raises KeyError
SubscriptedKeys == {"clouds", "humidity", "description", "temp"}
KeyError(data) == ~(SubscriptedKeys \subseteq DOMAIN data)

\* get_current_weather, after raise_for_status passed
get_current_weather(data) ==
    [cloud_cover |-> data.clouds, humidity |-> data.humidity,
     visibility |-> OrElse(data.visibility, 10000),
     description |-> data.description, temp |-> data.temp]

\* get_air_quality: resp is NULL when the request or the parsing raised
get_air_quality(resp) ==
    IF IsNull(resp)
    THEN [aqi |-> 3, pm25 |-> 15, pm10 |-> 20]
    ELSE [aqi |-> Val(resp).aqi,
          pm25 |-> OrElse(Val(resp).pm2_5, 15),
          pm10 |-> OrElse(Val(resp).pm10, 20)]

\* weather.update(air_quality)
DictUpdate(d, e) == e @@ d

\* json.dumps(weather): the items in insertion order
WeatherKeys ==
    <<"cloud_cover", "humidity", "visibility", "description", "temp",
      "aqi", "pm25", "pm10">>

\* json.dumps of the /weather fields alone, the air quality left out
JsonDumpsWeatherOnly(d) ==
    LET present == SelectSeq(SubSeq(WeatherKeys, 1, 5), LAMBDA k : k \in DOMAIN d)
    IN  [i \in 1..Len(present) |-> <<present[i], d[present[i]]>>]

\* json.dumps(weather_data)
JsonDumps(d) ==
    LET present == SelectSeq(WeatherKeys, LAMBDA k : k \in DOMAIN d)
    IN  [i \in 1..Len(present) |-> <<present[i], d[present[i]]>>]

\* json.loads(weather_data)
JsonLoads(s) ==
    [k \in {s[i][1] : i \in 1..Len(s)} |->
        s[CHOOSE i \in 1..Len(s) : s[i][1] = k][2]]

\* ------------------------------------------------- time and calendar ----
\* datetime.now().strftime('%Y-%m-%d')
DateOf(t) == t \div DayLen

\* get_sunset_time: the sunset of the current day, its last tick
get_sunset_time(t) == DateOf(t) * DayLen + (DayLen - 1)

\* ------------------------------------------------- inbound messages -----
Digits == <<"0", "1", "2", "3", "4", "5", "6", "7", "8", "9">>
IsDigit(c) == \E i \in 1..10 : Digits[i] = c
DigitVal(c) == (CHOOSE i \in 1..10 : Digits[i] = c) - 1

\* str.strip()
RECURSIVE LStrip(_)
LStrip(s) == IF s # <<>> /\ Head(s) = " " THEN LStrip(Tail(s)) ELSE s
RECURSIVE RStrip(_)
RStrip(s) ==
    IF s # <<>> /\ s[Len(s)] = " " THEN RStrip(SubSeq(s, 1, Len(s) - 1)) ELSE s
Strip(s) == RStrip(LStrip(s))

\* the digits of a literal, read left to right (underscores are skipped)
RECURSIVE DigitsValue(_, _)
DigitsValue(s, acc) ==
    IF s = <<>> THEN acc
    ELSE IF Head(s) = "_" THEN DigitsValue(Tail(s), acc)
    ELSE DigitsValue(Tail(s), acc * 10 + DigitVal(Head(s)))

\* the body of an int literal: digits, single underscores between digits
WellFormedDigits(s) ==
    /\ s # <<>>
    /\ IsDigit(s[1]) /\ IsDigit(s[Len(s)])
    /\ \A i \in 1..Len(s) : IsDigit(s[i]) \/ s[i] = "_"
    /\ \A i \in 1..(Len(s) - 1) : ~(s[i] = "_" /\ s[i + 1] = "_")

\* int(text): Some(n), or NULL when Python raises ValueError
ParseInt(text) ==
    LET t == Strip(text)
        signed == t # <<>> /\ Head(t) \in {"+", "-"}
        body == IF signed THEN Tail(t) ELSE t
    IN  IF ~WellFormedDigits(body) THEN NULL
        ELSE IF signed /\ Head(t) = "-" THEN Some(0 - DigitsValue(body, 0))
        ELSE Some(DigitsValue(body, 0))

\* texts a chat member may type
RatingTexts == { <<"7">>, <<"1", "0">>, <<"1">> }
ChatterTexts ==
    { <<"h", "e", "l", "l", "o">>, <<"1", "1">>, <<"0">>, <<"-", "3">>,
      <<"7", ".", "5">>, <<>> }
Texts == RatingTexts \cup ChatterTexts

\* the people who can write to the bot: the owner and anybody else
Owner    == [username |-> "kaseymarkel", chat_id |-> 1]
Stranger == [username |-> "someone", chat_id |-> 2]
Senders  == {Owner, Stranger}

\* msg.get('text', '').strip()
MsgText(msg) == Strip(OrElse(msg.text, <<>>))

\* ------------------------------------------------------------ state -----
vars == <<weightFile, predictions, sqlite_sequence, clock, inbox,
          next_update_id, outbox, pc, local, status, processed,
          peer, report, githubToken, currentUser, permissions, localStorage,
          result, cache, inflight, dateNow, settled>>

store == <<predictions, sqlite_sequence>>
authVars == <<githubToken, currentUser, permissions, localStorage, result>>
bmsVars == <<cache, inflight, dateNow, settled>>
dashboard == <<authVars, bmsVars>>
aside == <<peer, report, dashboard>>
world == <<weightFile, clock, inbox, next_update_id, aside>>

\* the invocation's variables before anything is assigned
NoFrame ==
    [weights |-> NULL, chat_id |-> NULL, sunset_time |-> NULL,
     weather |-> NULL, predicted_quality |-> NULL, updates |-> <<>>, idx |-> 0]

\* ------------------------------------------- beside the bot's run ------
\* no second invocation has begun
NoPeer == [pc |-> "idle", local |-> NoFrame, status |-> "ok"]

\* index.html: new DashboardAuth({allowedEditors: [...]})
allowedEditors == {"kaseymarkel"}

\* DashboardAuth constructor: this.permissions
NewPermissions ==
    [canView |-> TRUE, canEdit |-> FALSE, canExport |-> FALSE,
     canRefresh |-> TRUE]

\* the requests the dashboard makes: one endpoint, with and without options
NoOptions == <<>>
PostOptions == <<<<"method", "POST">>>>
Requests == {<<"/trials", NoOptions>>, <<"/trials", PostOptions>>}

\* JSON.stringify(options): the braces and the members in insertion order
RECURSIVE Members(_)
Members(options) ==
    IF options = <<>> THEN <<>>
    ELSE <<Head(options)[1], ":", Head(options)[2]>>
         \o (IF Tail(options) = <<>> THEN <<>> ELSE <<",">>)
         \o Members(Tail(options))
JSONstringify(options) == <<"{">> \o Members(options) \o <<"}">>

\* `${endpoint}-${JSON.stringify(options)}`
cacheKey(endpoint, options) == <<endpoint, "-">> \o JSONstringify(options)
CacheKeys == {cacheKey(r[1], r[2]) : r \in Requests}

\* the page as loaded and the script files as started, nothing called yet
InitAside ==
    /\ peer = NoPeer
    /\ report = NULL
    /\ githubToken = NULL
    /\ currentUser = NULL
    /\ permissions = NewPermissions
    /\ localStorage = [github_token |-> NULL, audit_log |-> NULL]
    /\ result = NULL
    /\ cache = [k \in CacheKeys |-> NULL]
    /\ inflight = [k \in CacheKeys |-> 0]
    /\ dateNow = 0
    /\ settled = NULL

Init ==
    /\ weightFile = NULL
    /\ predictions = <<>>
    /\ sqlite_sequence = 0
    /\ clock = 0
    /\ inbox = <<>>
    /\ next_update_id = 1
    /\ outbox = <<>>
    /\ pc = "idle"
    /\ local = NoFrame
    /\ status = "ok"
    /\ processed = {}
    /\ InitAside

\* ------------------------------------------------------ environment -----
Tick ==
    /\ clock < MaxClock
    /\ clock' = clock + 1
    /\ UNCHANGED <<weightFile, predictions, sqlite_sequence, inbox,
                   next_update_id, outbox, pc, local, status, processed,
                   aside>>

\* an update that carries a message
MessageUpdate(id, sender, text) ==
    [update_id |-> id,
     message |-> Some([from |-> sender.username, chat |-> sender.chat_id,
                       text |-> text])]

\* an update without a 'message' key (an edited message, a channel post)
OtherUpdate(id) == [update_id |-> id, message |-> NULL]

Deliver(u) ==
    /\ next_update_id <= MaxMsgs
    /\ inbox' = Append(inbox, u)
    /\ next_update_id' = next_update_id + 1
    /\ UNCHANGED <<weightFile, predictions, sqlite_sequence, clock, outbox,
                   pc, local, status, processed, aside>>

\* somebody types a text to the bot
UserSendFrom(senders, texts) ==
    \E sender \in senders, text \in texts :
        Deliver(MessageUpdate(next_update_id, sender, Some(text)))

\* the owner types a rating or a greeting
UserSendText ==
    UserSendFrom({Owner}, {<<"7">>, <<"1", "0">>, <<"h", "e", "l", "l", "o">>})

\* the owner types one of two ratings
OwnerSendRating == UserSendFrom({Owner}, {<<"7">>, <<"3">>})

\* somebody else types a rating
StrangerSendText == UserSendFrom(Senders \ {Owner}, {<<"7">>})

\* the owner types any of the texts
OwnerSendAnyText == UserSendFrom({Owner}, Texts)

\* the owner sends a message without text (a photo, a sticker)
UserSendNoText ==
    \E sender \in {Owner} :
        Deliver(MessageUpdate(next_update_id, sender, NULL))

UserSendOther == Deliver(OtherUpdate(next_update_id))

\* a human replaces model_weights.json as a whole
ReplaceWeightsFrom(files) ==
    \E f \in files :
        /\ weightFile # Some(f)
        /\ weightFile' = Some(f)
        /\ UNCHANGED <<predictions, sqlite_sequence, clock, inbox,
                       next_update_id, outbox, pc, local, status, processed,
                       aside>>

HumanReplaceAnyWeights == ReplaceWeightsFrom(WeightFiles)

\* ------------------------------------------------------------ main ------
\* an uncaught exception ends the invocation
Crash ==
    /\ pc' = "idle"
    /\ local' = NoFrame
    /\ status' = "error"

Return(s) ==
    /\ pc' = "idle"
    /\ local' = NoFrame
    /\ status' = s

\* main, lines 326-340: environment check, SunsetBot(...) with load_weights
\* and init_database (CREATE TABLE IF NOT EXISTS changes no row)
Start ==
    /\ pc = "idle"
    /\ Len(predictions) < MaxRecords
    /\ \E env_ok \in BOOLEAN :
        IF env_ok
        THEN /\ pc' = "get_chat_id"
             /\ local' = [NoFrame EXCEPT !.weights = Some(load_weights(weightFile))]
             /\ status' = "running"
        ELSE Return("ok")     \* prints the missing variables, returns
    /\ outbox' = <<>>
    /\ UNCHANGED <<store, world, processed>>

\* get_chat_id: the chat of the first update written by username
RECURSIVE FindChat(_, _)
FindChat(updates, username) ==
    IF updates = <<>> THEN NULL
    ELSE LET u == Head(updates)
         IN  IF ~IsNull(u.message) /\ Val(u.message).from = username
             THEN Some(Val(u.message).chat)
             ELSE FindChat(Tail(updates), username)

\* getUpdates answers: the held updates, a body without 'result', or it raises
UpdateOutcomes == {"ok", "no_result", "raise"}
get_telegram_updates(outcome) == IF outcome = "ok" THEN inbox ELSE <<>>

GetChatId ==
    /\ pc = "get_chat_id"
    /\ \E outcome \in UpdateOutcomes :
        IF outcome = "raise" THEN Crash
        ELSE LET chat == FindChat(get_telegram_updates(outcome), Owner.username)
             IN  IF IsNull(chat) THEN Return("ok")   \* prints, returns
                 ELSE /\ pc' = "fetch"
                      /\ local' = [local EXCEPT !.chat_id = chat]
                      /\ status' = status
    /\ UNCHANGED <<store, world, outbox, processed>>

\* run_prediction, lines 253-258
\* /air_pollution answers with one of the bodies, or the request fails
AirOutcomes(airBodies) == {NULL} \cup {Some(a) : a \in airBodies}

\* run_prediction, lines 253-258, on the answers data and air
FetchBodies(data, air) ==
    IF KeyError(data) THEN Crash
    ELSE /\ pc' = "score"
         /\ local' = [local EXCEPT
               !.sunset_time = Some(get_sunset_time(clock)),
               !.weather = Some(DictUpdate(get_current_weather(data),
                                           get_air_quality(air)))]
         /\ status' = status

FetchWeatherFrom(weatherBodies, airBodies) ==
    /\ pc = "fetch"
    /\ \/ Crash           \* the request or raise_for_status raised
       \/ \E data \in weatherBodies, air \in AirOutcomes(airBodies) :
            FetchBodies(data, air)
    /\ UNCHANGED <<store, world, outbox, processed>>

\* /weather answers with an overcast day (or raises), /air_pollution fails
FetchWeather ==
    FetchWeatherFrom({w \in WeatherResponses : w.clouds = 100}, {})

\* the APIs answer with any of the conditions
FetchAnyWeather == FetchWeatherFrom(WeatherResponses, AirResponses)

\* the APIs answer with any of the conditions, the humidity present or not
FetchPartialWeather ==
    FetchWeatherFrom(WeatherResponses \cup PartialWeatherResponses, AirResponses)

\* run_prediction, line 261
Score ==
    /\ pc = "score"
    /\ pc' = "store"
    /\ local' = [local EXCEPT !.predicted_quality =
                    Some(predict(Val(local.weights), Val(local.weather)))]
    /\ UNCHANGED <<store, world, outbox, status, processed>>

\* a row whose actual_quality column defaults to 0 instead of NULL
NewRowRated(id, now, sunset_time, predicted_quality, weather) ==
    [id |-> id,
     date |-> DateOf(now),
     sunset_time |-> sunset_time,
     predicted_quality |-> predicted_quality,
     actual_quality |-> Some(0),
     weather_data |-> JsonDumps(weather),
     feedback_time |-> NULL,
     created_at |-> now]

\* the row INSERT INTO predictions adds
NewRow(id, now, sunset_time, predicted_quality, weather) ==
    [id |-> id,
     date |-> DateOf(now),
     sunset_time |-> sunset_time,
     predicted_quality |-> predicted_quality,
     actual_quality |-> NULL,
     weather_data |-> JsonDumps(weather),
     feedback_time |-> NULL,
     created_at |-> now]

\* INSERT OR REPLACE keyed on the last row: the newest row is overwritten
save_predictionReplace(rows, seq, now, sunset_time, predicted_quality, weather) ==
    IF rows = <<>>
    THEN <<NewRow(seq + 1, now, sunset_time, predicted_quality, weather)>>
    ELSE [rows EXCEPT ![Len(rows)] =
            NewRow(seq + 1, now, sunset_time, predicted_quality, weather)]

\* an INSERT that is never committed
save_predictionLost(rows, seq, now, sunset_time, predicted_quality, weather) ==
    rows

\* save_prediction: one INSERT, committed
save_prediction(rows, seq, now, sunset_time, predicted_quality, weather) ==
    Append(rows, NewRow(seq + 1, now, sunset_time, predicted_quality, weather))

\* an INSERT that stays in the table although the invocation died on it
save_abortedKept(rows, seq, now, sunset_time, predicted_quality, weather) ==
    Append(rows, NewRow(seq + 1, now, sunset_time, predicted_quality, weather))

\* save_prediction when connect, execute or commit raises: nothing was
\* committed, the table is as it was
save_aborted(rows, seq, now, sunset_time, predicted_quality, weather) ==
    rows

SavePrediction ==
    /\ pc = "store"
    /\ \/ /\ Crash        \* the database cannot be written
          /\ predictions' = save_aborted(predictions, sqlite_sequence, clock,
                                Val(local.sunset_time),
                                Val(local.predicted_quality), Val(local.weather))
          /\ sqlite_sequence' = sqlite_sequence
       \/ /\ predictions' = save_prediction(predictions, sqlite_sequence, clock,
                                Val(local.sunset_time),
                                Val(local.predicted_quality), Val(local.weather))
          /\ sqlite_sequence' = sqlite_sequence + 1
          /\ pc' = "notify"
          /\ UNCHANGED <<local, status>>
    /\ UNCHANGED <<world, outbox, processed>>

\* sendMessage answers ok, answers an error body, or the request raises
SendOutcomes == {"ok", "rejected", "raise"}
send_telegram_message(box, outcome, msg) ==
    IF outcome = "ok" THEN Append(box, msg) ELSE box

\* run_prediction, lines 266-284
SendPrediction ==
    /\ pc = "notify"
    /\ \E outcome \in SendOutcomes :
        /\ outbox' = send_telegram_message(outbox, outcome,
                        [kind |-> "prediction", chat_id |-> Val(local.chat_id),
                         value |-> Val(local.predicted_quality)])
        /\ IF outcome = "raise" THEN Crash
           ELSE /\ pc' = "get_updates"
                /\ UNCHANGED <<local, status>>
    /\ UNCHANGED <<store, world, processed>>

\* ------------------------------------- process_feedback (286-320) -------
\* process_feedback, line 288
GetFeedbackUpdates ==
    /\ pc = "get_updates"
    /\ \E outcome \in UpdateOutcomes :
        IF outcome = "raise" THEN Crash
        ELSE /\ pc' = "feedback"
             /\ local' = [local EXCEPT !.updates = get_telegram_updates(outcome),
                                       !.idx = 1]
             /\ status' = status
    /\ UNCHANGED <<store, world, outbox, processed>>

\* a range test without its lower end
IsRatingNoFloor(rating) == rating <= 10

\* if 1 <= rating <= 10
IsRating(rating) == 1 <= rating /\ rating <= 10

\* an UPDATE without its WHERE clause
AnyRow(rows) == 1..Len(rows)

\* WHERE actual_quality IS NULL
Unresolved(rows) == {i \in 1..Len(rows) : IsNull(rows[i].actual_quality)}

\* ORDER BY created_at ASC LIMIT 1
UpdateTargetsOldest(rows) ==
    {i \in Unresolved(rows) :
        \A j \in Unresolved(rows) : rows[i].created_at <= rows[j].created_at}

\* ORDER BY created_at DESC LIMIT 1: the rows the statement may pick; rows
\* with equal created_at come in an order SQLite does not define
UpdateTargets(rows) ==
    {i \in Unresolved(rows) :
        \A j \in Unresolved(rows) : rows[j].created_at <= rows[i].created_at}

\* a SET clause that leaves feedback_time for a later statement
SetFeedbackNoTime(row, rating, now) ==
    [row EXCEPT !.actual_quality = Some(rating)]

\* a SET clause that also writes the rating over the prediction
SetFeedbackAndPrediction(row, rating, now) ==
    [row EXCEPT !.actual_quality = Some(rating), !.feedback_time = Some(now),
                !.predicted_quality = rating * Scale]

\* SET actual_quality = ?, feedback_time = ?
SetFeedback(row, rating, now) ==
    [row EXCEPT !.actual_quality = Some(rating), !.feedback_time = Some(now)]

\* the tables the UPDATE statement of lines 303-310 may leave (SQLite built
\* with UPDATE ... ORDER BY ... LIMIT, as the stock Ubuntu and macOS builds)
UpdateFeedback(rows, rating, now) ==
    IF UpdateTargets(rows) = {} THEN {rows}
    ELSE {[rows EXCEPT ![i] = SetFeedback(rows[i], rating, now)] :
            i \in UpdateTargets(rows)}

\* the update the loop of line 293 is at
AtUpdate == pc = "feedback" /\ local.idx <= Len(local.updates)
CurUpdate == local.updates[local.idx]
CurHasMessage == ~IsNull(CurUpdate.message)
CurRating == ParseInt(MsgText(Val(CurUpdate.message)))
\* the update is a message whose text is an int that passes the range test
CurIsRating == CurHasMessage /\ ~IsNull(CurRating) /\ IsRating(Val(CurRating))

\* one iteration of the loop of lines 293-318
FeedbackStep ==
    /\ AtUpdate
    /\ processed' = processed \cup {CurUpdate.update_id}
    /\ IF CurIsRating
       THEN /\ predictions' \in UpdateFeedback(predictions, Val(CurRating), clock)
            /\ \E outcome \in SendOutcomes :
                /\ outbox' = send_telegram_message(outbox, outcome,
                                [kind |-> "confirmation",
                                 chat_id |-> Val(CurUpdate.message).chat,
                                 value |-> Val(CurRating)])
                /\ IF outcome = "raise" THEN Crash
                   ELSE /\ local' = [local EXCEPT !.idx = local.idx + 1]
                        /\ UNCHANGED <<pc, status>>
       ELSE /\ local' = [local EXCEPT !.idx = local.idx + 1]
            /\ UNCHANGED <<predictions, outbox, pc, status>>
    /\ UNCHANGED <<sqlite_sequence, world>>

\* the loop is over: conn.close(), main returns
FeedbackDone ==
    /\ pc = "feedback"
    /\ local.idx > Len(local.updates)
    /\ Return("ok")
    /\ UNCHANGED <<store, world, outbox, processed>>

\* ------------------------------------------------------ specification ---
\* the invocation of main(), step by step, but for the weather fetch
Invocation ==
    \/ Start
    \/ GetChatId
    \/ Score
    \/ SavePrediction
    \/ SendPrediction
    \/ GetFeedbackUpdates
    \/ FeedbackStep
    \/ FeedbackDone

\* the bot, its chat and the clock
Next ==
    \/ Tick
    \/ UserSendText
    \/ FetchWeather
    \/ Invocation

Spec == Init /\ [][Next]_vars

\* the owner has written to the bot before the first invocation
InitGreeted ==
    /\ weightFile = NULL
    /\ predictions = <<>>
    /\ sqlite_sequence = 0
    /\ clock = 0
    /\ inbox = <<MessageUpdate(1, Owner, Some(<<"h", "i">>))>>
    /\ next_update_id = 2
    /\ outbox = <<>>
    /\ pc = "idle"
    /\ local = NoFrame
    /\ status = "ok"
    /\ processed = {}
    /\ InitAside

\* the bot under every weather and every weight file, the clock standing
NextScoring ==
    \/ HumanReplaceAnyWeights
    \/ FetchAnyWeather
    \/ Invocation

SpecScoring == InitGreeted /\ [][NextScoring]_vars

\* the scheduler turns to the other of two overlapping invocations of
\* main(): separate processes with their own locals, one database file,
\* each SQL statement atomic under SQLite's file lock
Switch ==
    /\ pc' = peer.pc
    /\ local' = peer.local
    /\ status' = peer.status
    /\ peer' = [pc |-> pc, local |-> local, status |-> status]
    /\ UNCHANGED <<store, weightFile, clock, inbox, next_update_id, outbox,
                   processed, report, dashboard>>

\* two invocations of the bot overlapping, the clock standing
NextOverlap ==
    \/ OwnerSendRating
    \/ FetchWeather
    \/ Invocation
    \/ Switch

SpecOverlap == Init /\ [][NextOverlap]_vars

\* --------------------------------------- train_model.py (474-629) ------
\* load_feedback_data: SELECT ... WHERE actual_quality IS NOT NULL
load_feedback_data(rows) ==
    LET rated == SelectSeq(rows, LAMBDA r : ~IsNull(r.actual_quality))
    IN  [i \in 1..Len(rated) |->
            [predicted |-> rated[i].predicted_quality,
             actual |-> Val(rated[i].actual_quality),
             weather |-> JsonLoads(rated[i].weather_data)]]

\* d['predicted'] - d['actual'], in units of 1 / Scale
Error(d) == d.predicted - d.actual * Scale

RECURSIVE SumErrors(_)
SumErrors(data) ==
    IF data = <<>> THEN 0 ELSE Error(Head(data)) + SumErrors(Tail(data))

RECURSIVE SumAbsErrors(_)
SumAbsErrors(data) ==
    IF data = <<>> THEN 0 ELSE Abs(Error(Head(data))) + SumAbsErrors(Tail(data))

\* what a function printed: a section of the report, or the notice that it
\* was skipped
Section(name, detail) == [section |-> name, notice |-> FALSE, detail |-> detail]
Notice(name) == [section |-> name, notice |-> TRUE, detail |-> <<>>]

\* calculate_model_accuracy: the count, the summed absolute error (MAE is
\* its mean, RMSE is printed beside it) and the summed error (the bias)
calculate_model_accuracy(data) ==
    IF data = <<>> THEN <<Notice("performance")>>
    ELSE <<Section("performance",
                   <<Len(data), SumAbsErrors(data), SumErrors(data)>>)>>

\* analyze_feature_correlations: the four features it correlates
analyze_feature_correlations(data) ==
    IF Len(data) < 3 THEN <<Notice("features")>>
    ELSE <<Section("features",
                   <<"cloud_cover", "humidity", "visibility", "pm25">>)>>

\* the warnings suggest_weight_adjustments prints
Warnings(data) ==
    LET high_clouds == SelectSeq(data, LAMBDA d : d.weather.cloud_cover > 70)
        low_humidity == SelectSeq(data, LAMBDA d : d.weather.humidity < 40)
    IN  (IF SumErrors(data) > Len(data) * Scale
         THEN <<"over-predicting">> ELSE <<>>)
        \o (IF SumErrors(data) < 0 - Len(data) * Scale
            THEN <<"under-predicting">> ELSE <<>>)
        \o (IF Len(high_clouds) >= 2
               /\ 2 * SumErrors(high_clouds) > 3 * Len(high_clouds) * Scale
            THEN <<"high clouds">> ELSE <<>>)
        \o (IF Len(low_humidity) >= 2
               /\ 2 * SumErrors(low_humidity) < 0 - 3 * Len(low_humidity) * Scale
            THEN <<"low humidity">> ELSE <<>>)

\* a threshold of three ratings instead of five
suggest_weight_adjustmentsEarly(data) ==
    IF Len(data) < 3 THEN <<Notice("suggestions")>>
    ELSE <<Section("suggestions", Warnings(data))>>

\* suggest_weight_adjustments
suggest_weight_adjustments(data) ==
    IF Len(data) < 5 THEN <<Notice("suggestions")>>
    ELSE <<Section("suggestions", Warnings(data))>>

\* train_model.main: what it prints for the table rows
train_model_main(rows) ==
    LET data == load_feedback_data(rows)
    IN  IF data = <<>> THEN <<Notice("no feedback data")>>
        ELSE calculate_model_accuracy(data)
             \o analyze_feature_correlations(data)
             \o suggest_weight_adjustments(data)

\* a training run that ends with save_weights()
weights_after_trainingSaved(file) == Some(default_weights)

\* model_weights.json after train_model.main: nothing opens it for writing,
\* the run ends with "edit model_weights.json manually"
weights_after_training(file) == file

\* python train_model.py
Train ==
    /\ report' = Some(train_model_main(predictions))
    /\ weightFile' = weights_after_training(weightFile)
    /\ UNCHANGED <<store, clock, inbox, next_update_id, outbox, pc, local,
                   status, processed, peer, dashboard>>

\* the observation of an overcast day with /air_pollution failing
OvercastDay ==
    DictUpdate(get_current_weather(
                  CHOOSE w \in WeatherResponses : w.clouds = 100),
               get_air_quality(NULL))

\* the row the bot stored as id on an overcast day, rated or not
StoredOvercast(id, rating) ==
    LET row == NewRow(id, 0, get_sunset_time(0),
                      predict(default_weights, OvercastDay), OvercastDay)
    IN  IF IsNull(rating) THEN row ELSE SetFeedback(row, Val(rating), 0)

\* tables the bot has left behind: up to MaxRows rows, each one unrated or
\* rated 2 or 9
Tables ==
    UNION {{[i \in 1..n |-> StoredOvercast(i, f[i])] :
              f \in [1..n -> {NULL, Some(2), Some(9)}]} : n \in 0..MaxRows}

\* the bot was greeted and has run before; nothing else has happened
InitTrained ==
    /\ predictions \in Tables
    /\ sqlite_sequence = Len(predictions)
    /\ weightFile = NULL
    /\ clock = 0
    /\ inbox = <<MessageUpdate(1, Owner, Some(<<"h", "i">>))>>
    /\ next_update_id = 2
    /\ outbox = <<>>
    /\ pc = "idle"
    /\ local = NoFrame
    /\ status = "ok"
    /\ processed = {}
    /\ InitAside

\* the analyzer beside the bot and the human who edits the weight file
NextTraining ==
    \/ Train
    \/ HumanReplaceAnyWeights
    \/ FetchWeather
    \/ Invocation

SpecTraining == InitTrained /\ [][NextTraining]_vars

\* /weather answers with a fair or an overcast day, /air_pollution fails
FetchFairOrOvercast ==
    FetchWeatherFrom({w \in WeatherResponses : w.clouds > 0}, {})

\* the owner rates a sunset 7
OwnerSendSeven == UserSendFrom({Owner}, {<<"7">>})

\* the bot over several days of changing weather, rated by the owner, the
\* weight file never replaced
NextDays ==
    \/ Tick
    \/ OwnerSendSeven
    \/ FetchFairOrOvercast
    \/ Invocation

SpecDays == Init /\ [][NextDays]_vars

\* a message that also notes, for the properties and not for the bot, the
\* largest id the store had assigned when it was sent
NotedUpdate(id, sender, text) ==
    [update_id |-> id,
     message |-> Some([from |-> sender.username, chat |-> sender.chat_id,
                       text |-> text, rows_then |-> sqlite_sequence])]

\* the owner rates a sunset 7
OwnerSendNoted == Deliver(NotedUpdate(next_update_id, Owner, Some(<<"7">>)))

\* the bot and an owner whose ratings note when they were sent
NextLate ==
    \/ OwnerSendNoted
    \/ FetchWeather
    \/ Invocation

SpecLate == Init /\ [][NextLate]_vars

\* Telegram drops the oldest update it holds; here only one the bot has
\* already been handed (getUpdates keeps an update for a day at most)
ExpireUpdate ==
    /\ inbox # <<>>
    /\ Head(inbox).update_id \in processed
    /\ inbox' = Tail(inbox)
    /\ UNCHANGED <<weightFile, predictions, sqlite_sequence, clock,
                   next_update_id, outbox, pc, local, status, processed, aside>>

\* the ratings sent so far, the first message having been the greeting
RatingsSent == next_update_id - 2

\* the owner sends one rating after a run that left a prediction not yet
\* rated
OwnerRates ==
    /\ pc = "idle"
    /\ status = "ok"
    /\ RatingsSent < sqlite_sequence
    /\ OwnerSendNoted

\* cron starts main once a day: the clock has moved on since the last
\* record was stored, and what the last run was handed has expired
DailyStart ==
    /\ \A i \in 1..Len(predictions) : predictions[i].created_at < clock
    /\ \A i \in 1..Len(inbox) : inbox[i].update_id \notin processed
    /\ Start

\* a step of main that does not end in an exception
Unraised == status' # "error"

\* the steps of a run after its start, no request raising
Running ==
    \/ GetChatId /\ Unraised
    \/ FetchWeather /\ Unraised
    \/ Score /\ Unraised
    \/ SavePrediction /\ Unraised
    \/ SendPrediction /\ Unraised
    \/ GetFeedbackUpdates /\ Unraised
    \/ FeedbackStep /\ Unraised
    \/ FeedbackDone /\ Unraised

\* the bot run daily, its owner rating every prediction once
NextLive ==
    \/ Tick
    \/ OwnerRates
    \/ ExpireUpdate
    \/ DailyStart
    \/ Running

\* time passes; cron keeps starting main and a started process keeps
\* running; the owner does rate; Telegram does drop old updates
SpecLive ==
    /\ InitGreeted
    /\ [][NextLive]_vars
    /\ WF_vars(Tick)
    /\ WF_vars(OwnerRates)
    /\ WF_vars(ExpireUpdate)
    /\ WF_vars(DailyStart)
    /\ WF_vars(Running)

\* model_weights.json is replaced by a file that changes pollution_weight
HumanReplacePollutionWeight == ReplaceWeightsFrom({PollutionWeights})

FetchSky == FetchWeatherFrom(SkyResponses, IndexResponses)

\* two invocations of the bot under different descriptions of the sky and
\* of the air and different pollution weights, the clock standing
NextBlind ==
    \/ HumanReplacePollutionWeight
    \/ FetchSky
    \/ Invocation
    \/ Switch

SpecBlind == InitGreeted /\ [][NextBlind]_vars

\* the bot under complete and incomplete API answers, the clock standing
NextPartial ==
    \/ FetchPartialWeather
    \/ Invocation

SpecPartial == InitGreeted /\ [][NextPartial]_vars

\* the bot under every kind of update, the clock standing
NextTexts ==
    \/ OwnerSendAnyText
    \/ StrangerSendText
    \/ UserSendNoText
    \/ UserSendOther
    \/ FetchWeather
    \/ Invocation

SpecTexts == Init /\ [][NextTexts]_vars

\* ------------------------------------ DashboardAuth (auth.js 6-151) ----
\* the personal access tokens somebody may paste; "" is the empty input
Tokens == {"", "ghp_editor", "ghp_viewer", "ghp_revoked"}

\* the account GitHub knows a token to belong to
Account(token) ==
    IF token = "ghp_editor" THEN Some("kaseymarkel")
    ELSE IF token = "ghp_viewer" THEN Some("visitor")
    ELSE NULL

\* what fetch('https://api.github.com/user') may do for a token: answer ok
\* with the account, answer with an error status, or reject
Answers(token) ==
    {[kind |-> "status", login |-> NULL], [kind |-> "rejects", login |-> NULL]}
    \cup (IF IsNull(Account(token)) THEN {}
          ELSE {[kind |-> "ok", login |-> Account(token)]})

\* !value for a token or null
Falsy(opt) == IsNull(opt) \/ Val(opt) = ""

\* the DashboardAuth object with the localStorage it writes through to
This ==
    [githubToken |-> githubToken, currentUser |-> currentUser,
     permissions |-> permissions, localStorage |-> localStorage]

Becomes(a) ==
    /\ githubToken' = a.githubToken
    /\ currentUser' = a.currentUser
    /\ permissions' = a.permissions
    /\ localStorage' = a.localStorage

\* a logout that takes every permission away
logoutEverything(a) ==
    [a EXCEPT !.githubToken = NULL, !.currentUser = NULL,
              !.permissions = [canView |-> FALSE, canEdit |-> FALSE,
                               canExport |-> FALSE, canRefresh |-> FALSE],
              !.localStorage.github_token = NULL]

\* logout, lines 99-105
logout(a) ==
    [a EXCEPT !.githubToken = NULL, !.currentUser = NULL,
              !.permissions.canEdit = FALSE, !.permissions.canExport = FALSE,
              !.localStorage.github_token = NULL]

\* verifyGitHubAuth, lines 40-71: the object afterwards and the value returned
verifyGitHubAuth(a, answer) ==
    IF Falsy(a.githubToken) THEN [this |-> a, value |-> FALSE]
    ELSE IF answer.kind = "rejects" THEN [this |-> a, value |-> FALSE]
    ELSE IF answer.kind = "ok"
    THEN LET b == [a EXCEPT !.currentUser = answer.login]
         IN  [this |-> IF Val(b.currentUser) \in allowedEditors
                       THEN [b EXCEPT !.permissions.canEdit = TRUE,
                                      !.permissions.canExport = TRUE]
                       ELSE b,
              value |-> TRUE]
    ELSE [this |-> logout(a), value |-> FALSE]

\* a login that trusts verifyGitHubAuth to have cleaned up after a failure
loginWithGitHubNoLogout(a, token, answer) ==
    LET stored == [a EXCEPT !.githubToken = Some(token),
                            !.localStorage.github_token = Some(token)]
        verified == verifyGitHubAuth(stored, answer)
    IN  [this |-> verified.this,
         value |-> [success |-> verified.value,
                    user |-> IF verified.value THEN verified.this.currentUser
                             ELSE NULL]]

\* loginWithGitHub, lines 76-94
loginWithGitHub(a, token, answer) ==
    LET stored == [a EXCEPT !.githubToken = Some(token),
                            !.localStorage.github_token = Some(token)]
        verified == verifyGitHubAuth(stored, answer)
    IN  IF verified.value
        THEN [this |-> verified.this,
              value |-> [success |-> TRUE, user |-> verified.this.currentUser]]
        ELSE [this |-> logout(verified.this),
              value |-> [success |-> FALSE, user |-> NULL]]

\* init, lines 22-35
init(a, answer) ==
    LET storedToken == a.localStorage.github_token
        verified == IF Falsy(storedToken) THEN a
                    ELSE verifyGitHubAuth([a EXCEPT !.githubToken = storedToken],
                                          answer).this
    IN  [verified EXCEPT !.permissions.canView = TRUE,
                         !.permissions.canRefresh = TRUE]

\* the actions the page logs
LoggedActions == {"export"}

\* JSON.parse(localStorage.getItem('audit_log') || '[]')
StoredLog(storage) == OrElse(storage.audit_log, <<>>)

\* the ordinal of the next entry, standing for its timestamp
NextOrdinal(log) == IF log = <<>> THEN 1 ELSE log[Len(log)].ordinal + 1

\* a logAction that never drops an entry
logActionUnbounded(a, action) ==
    LET auditLog == StoredLog(a.localStorage)
        logEntry == [ordinal |-> NextOrdinal(auditLog),
                     user |-> OrElse(a.currentUser, "anonymous"),
                     action |-> action]
    IN  [a EXCEPT !.localStorage.audit_log = Some(Append(auditLog, logEntry))]

\* logAction, lines 128-149: push, shift when longer than the cap, store
logAction(a, action) ==
    LET auditLog == StoredLog(a.localStorage)
        logEntry == [ordinal |-> NextOrdinal(auditLog),
                     user |-> OrElse(a.currentUser, "anonymous"),
                     action |-> action]
        pushed == Append(auditLog, logEntry)
        kept == IF Len(pushed) > AuditCap THEN Tail(pushed) ELSE pushed
    IN  [a EXCEPT !.localStorage.audit_log = Some(kept)]

\* the token GitHub is asked about when a call starts with token held
Asked(token) == IF Falsy(token) THEN {""} ELSE {Val(token)}

\* await auth.init()
AuthInit ==
    /\ \E token \in Asked(localStorage.github_token) :
         \E answer \in Answers(token) :
            /\ Becomes(init(This, answer))
            /\ result' = Some([call |-> "init", success |-> TRUE])
    /\ UNCHANGED <<store, weightFile, clock, inbox, next_update_id, outbox, pc,
                   local, status, processed, peer, report, bmsVars>>

\* await auth.loginWithGitHub(token)
Login ==
    /\ \E token \in Tokens : \E answer \in Answers(token) :
         LET returned == loginWithGitHub(This, token, answer)
         IN  /\ Becomes(returned.this)
             /\ result' = Some([call |-> "login",
                                success |-> returned.value.success])
    /\ UNCHANGED <<store, weightFile, clock, inbox, next_update_id, outbox, pc,
                   local, status, processed, peer, report, bmsVars>>

\* auth.logout()
Logout ==
    /\ Becomes(logout(This))
    /\ result' = Some([call |-> "logout", success |-> TRUE])
    /\ UNCHANGED <<store, weightFile, clock, inbox, next_update_id, outbox, pc,
                   local, status, processed, peer, report, bmsVars>>

\* auth.logAction(action)
LogAction ==
    /\ NextOrdinal(StoredLog(localStorage)) <= MaxLogged
    /\ \E action \in LoggedActions : Becomes(logAction(This, action))
    /\ UNCHANGED <<store, weightFile, clock, inbox, next_update_id, outbox, pc,
                   local, status, processed, peer, report, result, bmsVars>>

\* location.reload(): a new DashboardAuth over the same localStorage
Reload ==
    /\ githubToken' = NULL
    /\ currentUser' = NULL
    /\ permissions' = NewPermissions
    /\ result' = NULL
    /\ UNCHANGED <<store, weightFile, clock, inbox, next_update_id, outbox, pc,
                   local, status, processed, peer, report, localStorage,
                   bmsVars>>

\* the calls of one page after another on a DashboardAuth, none overlapping
NextAuth ==
    \/ AuthInit
    \/ Login
    \/ Logout
    \/ LogAction
    \/ Reload

SpecAuth == Init /\ [][NextAuth]_vars

\* ---------------------------- BMSAPI.request (bms-integration.js) -----
\* cacheTimeout: 5 * 60 * 1000 ms, in minutes
cacheTimeout == 5

\* the bodies the BMS server may answer a request with
Bodies == {"trials v1", "trials v2"}

\* what the fetch of a request may end in: an ok response with a body, a
\* response that is not ok, or a rejection (network, body that is not JSON)
FetchResults ==
    {[kind |-> "ok", body |-> Some(b)] : b \in Bodies}
    \cup {[kind |-> "not ok", body |-> NULL], [kind |-> "rejects", body |-> NULL]}

\* an entry that is also used on the minute it expires
FreshInclusive(cached, now) ==
    ~IsNull(cached) /\ now - Val(cached).timestamp <= cacheTimeout

\* cached && Date.now() - cached.timestamp < cacheTimeout
Fresh(cached, now) ==
    ~IsNull(cached) /\ now - Val(cached).timestamp < cacheTimeout

\* cache.set(cacheKey, {data, timestamp: Date.now()})
cacheSet(map, key, data, now) ==
    [map EXCEPT ![key] = Some([data |-> data, timestamp |-> now])]

\* the requests awaiting their fetch, over all keys
RECURSIVE Awaiting(_, _)
Awaiting(counts, keys) ==
    IF keys = {} THEN 0
    ELSE LET k == CHOOSE x \in keys : TRUE
         IN  counts[k] + Awaiting(counts, keys \ {k})

\* request(endpoint, options) up to its await: the cached data is returned,
\* or the fetch is started
Request(endpoint, options) ==
    LET key == cacheKey(endpoint, options)
    IN  /\ IF Fresh(cache[key], dateNow)
           THEN /\ settled' = Some([how |-> "cached", key |-> key,
                                    data |-> Some(Val(cache[key]).data)])
                /\ inflight' = inflight
           ELSE /\ Awaiting(inflight, CacheKeys) < MaxInflight
                /\ inflight' = [inflight EXCEPT ![key] = @ + 1]
                /\ settled' = settled
        /\ UNCHANGED <<cache, dateNow>>
        /\ UNCHANGED <<store, weightFile, clock, inbox, next_update_id, outbox,
                       pc, local, status, processed, peer, report, authVars>>

\* request after its await: the response is checked, parsed, cached and
\* returned, or the error is logged and thrown again
Settle(key, fetched) ==
    /\ inflight[key] > 0
    /\ inflight' = [inflight EXCEPT ![key] = @ - 1]
    /\ IF fetched.kind = "ok"
       THEN /\ cache' = cacheSet(cache, key, Val(fetched.body), dateNow)
            /\ settled' = Some([how |-> "fetched", key |-> key,
                                data |-> fetched.body])
       ELSE /\ cache' = cache
            /\ settled' = Some([how |-> "threw", key |-> key, data |-> NULL])
    /\ UNCHANGED dateNow
    /\ UNCHANGED <<store, weightFile, clock, inbox, next_update_id, outbox,
                   pc, local, status, processed, peer, report, authVars>>

CallRequest == \E r \in Requests : Request(r[1], r[2])

FetchSettles == \E key \in CacheKeys, fetched \in FetchResults : Settle(key, fetched)

\* clearCache
ClearCache ==
    /\ cache' = [k \in CacheKeys |-> NULL]
    /\ UNCHANGED <<inflight, dateNow, settled>>
    /\ UNCHANGED <<store, weightFile, clock, inbox, next_update_id, outbox,
                   pc, local, status, processed, peer, report, authVars>>

\* a minute passes
Minute ==
    /\ dateNow < MaxNow
    /\ dateNow' = dateNow + 1
    /\ UNCHANGED <<cache, inflight, settled>>
    /\ UNCHANGED <<store, weightFile, clock, inbox, next_update_id, outbox,
                   pc, local, status, processed, peer, report, authVars>>

NextBMS ==
    \/ CallRequest
    \/ FetchSettles
    \/ ClearCache
    \/ Minute

SpecBMS == Init /\ [][NextBMS]_vars

TypeOK ==
    /\ pc \in {"idle", "get_chat_id", "fetch", "score", "store", "notify",
               "get_updates", "feedback"}
    /\ Len(predictions) <= MaxRecords
    /\ clock \in 0..MaxClock

\* -------------------------------------------------------- properties ---
\* the update the loop handled in its last iteration
PastFirst == pc = "feedback" /\ local.idx >= 2 /\ local.idx - 1 <= Len(local.updates)
LastUpdate == local.updates[local.idx - 1]
LastWasRating ==
    /\ PastFirst
    /\ ~IsNull(LastUpdate.message)
    /\ OrElse(Val(LastUpdate.message).text, <<>>) \in RatingTexts

Resolved(rows) == {i \in 1..Len(rows) : ~IsNull(rows[i].actual_quality)}

\* row i is the only row of the table the step resolved
ResolvesOnly(i) ==
    /\ Len(predictions') = Len(predictions)
    /\ predictions'[i].actual_quality = CurRating
    /\ \A j \in Unresolved(predictions) \ {i} :
          IsNull(predictions'[j].actual_quality)

C2_AtMostOnceFeedback ==
    [][\A i \in Resolved(predictions) :
          /\ i <= Len(predictions')
          /\ predictions'[i].actual_quality = predictions[i].actual_quality
          /\ predictions'[i].feedback_time = predictions[i].feedback_time]_vars

\* a valid rating was handled while a record already carried another rating
C2_Witness ==
    /\ LastWasRating
    /\ \E i \in Resolved(predictions) :
          /\ predictions[i].actual_quality = Some(7)
          /\ OrElse(Val(LastUpdate.message).text, <<>>) = <<"1", "0">>
          /\ Unresolved(predictions) = {}

\* C3 as stated: handling an update that process_feedback has handled
\* before changes no record.
C3_ReplayChangesNothing ==
    [][(FeedbackStep /\ CurUpdate.update_id \in processed)
        => predictions' = predictions]_vars

\* a rating that resolved a record in one invocation resolves a second
\* record when getUpdates returns it again
C3_Witness ==
    /\ LastWasRating
    /\ Cardinality(processed) = 1
    /\ Cardinality(Resolved(predictions)) = 2

InRange(q) == 1 * Scale <= q /\ q <= 10 * Scale

\* C4: the score predict returns, and the predicted_quality of every stored
\* row, lies in [1,10], for every weather observation and weight file.
C4_Clamping ==
    /\ \A i \in 1..Len(predictions) : InRange(predictions[i].predicted_quality)
    /\ ~IsNull(local.predicted_quality) => InRange(Val(local.predicted_quality))

\* a sum above 10 was scored and stored as exactly 10
C4_Witness ==
    /\ pc = "notify"
    /\ RawScore(Val(local.weights), Val(local.weather)) > 10 * Scale
    /\ predictions[Len(predictions)].predicted_quality = 10 * Scale

\* a sum below 1 was scored and stored as exactly 1
C4_WitnessLow ==
    /\ pc = "notify"
    /\ RawScore(Val(local.weights), Val(local.weather)) < 1 * Scale
    /\ predictions[Len(predictions)].predicted_quality = 1 * Scale

\* the text of the update the loop is at, before any stripping
CurRawText == OrElse(Val(CurUpdate.message).text, <<>>)

\* the number a rating text stands for
NumberOf(text) ==
    CASE text = <<"7">> -> 7
      [] text = <<"1", "0">> -> 10
      [] text = <<"1">> -> 1

\* C5: "hello", "11", "0", "-3", "7.5", an empty or a missing text and an
\* update without a message change no record, send nothing and raise
\* nothing; a record changes only for "7", "10" or "1", and then to the
\* number the text stands for.
C5_FeedbackValidation ==
    [][FeedbackStep =>
        /\ (~CurHasMessage \/ CurRawText \in ChatterTexts)
              => /\ predictions' = predictions
                 /\ outbox' = outbox
                 /\ status' # "error"
        /\ predictions' # predictions
              => /\ CurHasMessage
                 /\ CurRawText \in RatingTexts
                 /\ \E i \in Unresolved(predictions) :
                       predictions'[i].actual_quality
                           = Some(NumberOf(CurRawText))]_vars

\* "7.5" was handled while a record was waiting, and the record still waits
C5_Witness ==
    /\ PastFirst
    /\ ~IsNull(LastUpdate.message)
    /\ Val(LastUpdate.message).text = Some(<<"7", ".", "5">>)
    /\ Unresolved(predictions) # {}

\* C6 as stated: a valid rating that finds no unresolved record changes no
\* record and sends no confirmation; a confirmation is sent only when the
\* rating resolved a record.
C6_ConfirmOnlyOnSuccess ==
    [][FeedbackStep =>
        /\ (CurIsRating /\ Unresolved(predictions) = {})
              => predictions' = predictions /\ outbox' = outbox
        /\ outbox' # outbox => predictions' # predictions]_vars

\* a confirmation went out for a rating that found every record resolved
C6_Witness ==
    /\ LastWasRating
    /\ Unresolved(predictions) = {}
    /\ \E k \in 1..Len(outbox) :
          /\ outbox[k].kind = "confirmation"
          /\ \A i \in 1..Len(predictions) :
                predictions[i].actual_quality # Some(outbox[k].value)

Ids(rows) == {rows[i].id : i \in 1..Len(rows)}

\* C7: no step removes a row or changes a row's id; save_prediction adds
\* exactly one row, leaves the others as they were, and gives the new row
\* an id above every id assigned before.
C7_AppendOnlyMonotoneIds ==
    [][/\ Len(predictions') >= Len(predictions)
       /\ \A i \in 1..Len(predictions) : predictions'[i].id = predictions[i].id
       /\ (SavePrediction /\ pc' = "notify")
            => /\ Len(predictions') = Len(predictions) + 1
               /\ SubSeq(predictions', 1, Len(predictions)) = predictions
               /\ \A id \in Ids(predictions) \cup {sqlite_sequence} :
                     predictions'[Len(predictions')].id > id]_vars

\* two appends have happened
C7_Witness ==
    /\ Len(predictions) = 2
    /\ predictions[1].id < predictions[2].id
    /\ pc = "notify"

\* C8: a step of process_feedback that changes the table changes one row,
\* and of that row only actual_quality and feedback_time.
C8_ReconcileFrame ==
    [][(FeedbackStep /\ predictions' # predictions)
        => /\ Len(predictions') = Len(predictions)
           /\ \E i \in 1..Len(predictions) :
                 /\ \A j \in 1..Len(predictions) \ {i} :
                       predictions'[j] = predictions[j]
                 /\ predictions[i] =
                       [predictions'[i] EXCEPT
                           !.actual_quality = predictions[i].actual_quality,
                           !.feedback_time = predictions[i].feedback_time]]_vars

\* two reconciliations have succeeded, at different times
C8_Witness ==
    /\ Len(predictions) = 2
    /\ Unresolved(predictions) = {}
    /\ predictions[1].feedback_time # predictions[2].feedback_time

\* C9 as stated: at most one record is unresolved at any time.
C9_AtMostOneUnresolved == Cardinality(Unresolved(predictions)) <= 1

\* C9 (as amended): a prediction cycle is issued whether or not earlier
\* records await feedback; each save_prediction adds one unresolved record
\* to those outstanding, so several records may be unresolved at once.
C9_CycleAddsUnresolved ==
    [][(SavePrediction /\ pc' = "notify")
        => Cardinality(Unresolved(predictions'))
              = Cardinality(Unresolved(predictions)) + 1]_vars

\* a cycle stored its record while an earlier record was still unresolved
C9_Witness ==
    /\ pc = "notify"
    /\ Cardinality(Unresolved(predictions)) = 2

\* the row the running cycle has stored
StoredRow == predictions[Len(predictions)]

\* C10: the cycle fetches, scores, stores, then notifies: what is scored
\* was fetched, what is stored was scored, the row is in the table before
\* the notification is attempted, and a delivery, failed or not, leaves the
\* table as it was.
C10_StoreBeforeNotify ==
    /\ [](/\ pc = "score" => ~IsNull(local.weather) /\ IsNull(local.predicted_quality)
          /\ pc = "store" =>
                local.predicted_quality
                    = Some(predict(Val(local.weights), Val(local.weather)))
          /\ pc \in {"fetch", "score", "store"} => outbox = <<>>
          /\ pc = "notify" =>
                /\ outbox = <<>>
                /\ predictions # <<>>
                /\ StoredRow.predicted_quality = Val(local.predicted_quality)
                /\ StoredRow.weather_data = JsonDumps(Val(local.weather))
                /\ StoredRow.sunset_time = Val(local.sunset_time)
                /\ IsNull(StoredRow.actual_quality))
    /\ [][SendPrediction => predictions' = predictions]_vars

\* the delivery failed and the cycle's row is still in the table
C10_Witness ==
    /\ pc = "get_updates"
    /\ outbox = <<>>
    /\ Len(predictions) = 2
    /\ IsNull(StoredRow.actual_quality)

\* the positions of an invocation at which nothing has been appended yet
BeforeAppend == pc \in {"idle", "get_chat_id", "fetch", "score", "store"}

\* C11: when a prediction cycle fails before the store append (the chat
\* lookup, the weather fetch or the INSERT raises), the store is exactly as
\* it was before the cycle: no row, partial or whole, was added.
C11_FailureLeavesStore ==
    [][(BeforeAppend /\ pc' = "idle" /\ status' = "error")
        => (predictions' = predictions /\ sqlite_sequence' = sqlite_sequence)]_vars

\* an invocation that knew its chat died before the append, the store empty
C11_Witness ==
    /\ status = "error"
    /\ pc = "idle"
    /\ inbox # <<>>
    /\ outbox = <<>>
    /\ predictions = <<>>
    /\ sqlite_sequence = 0

\* an answer pair in which a field the score reads is missing
Partial(data, air) ==
    \/ "humidity" \notin DOMAIN data
    \/ IsNull(data.visibility)
    \/ IsNull(air)
    \/ (~IsNull(air) /\ IsNull(Val(air).pm2_5))

\* the observation carries the documented default for each missing field
Defaulted(data, air, weather) ==
    /\ "humidity" \notin DOMAIN data => Get(weather, "humidity", 60) = 60
    /\ IsNull(data.visibility) => weather.visibility = 10000
    /\ IsNull(air) => (weather.aqi = 3 /\ weather.pm25 = 15)
    /\ (~IsNull(air) /\ IsNull(Val(air).pm2_5)) => weather.pm25 = 15

\* C12: on partial weather/air-quality API failure the cycle does not abort:
\* each missing field (humidity, visibility, PM2.5, AQI) is replaced by its
\* default (60, 10000, 15, 3) and the cycle goes on to score the observation.
C12_PartialFailureDefaults ==
    [][\A data \in WeatherResponses \cup PartialWeatherResponses,
          air \in AirOutcomes(AirResponses) :
          (pc = "fetch" /\ Partial(data, air) /\ FetchBodies(data, air))
            => /\ pc' = "score"
               /\ Defaulted(data, air, Val(local'.weather))]_vars

\* both invocations are inside process_feedback
BothInFeedback == pc = "feedback" /\ peer.pc = "feedback"

\* C13: when two invocations overlap and their feedback processing
\* interleaves on the one store, a record whose actual_quality is set keeps
\* that rating and its feedback_time in every step of either invocation,
\* and one step resolves at most one record: no rating is overwritten, no
\* record is resolved twice.
C13_OverlapSetsOnce ==
    [][/\ Len(predictions') >= Len(predictions)
       /\ \A i \in Resolved(predictions) :
            /\ predictions'[i].actual_quality = predictions[i].actual_quality
            /\ predictions'[i].feedback_time = predictions[i].feedback_time
       /\ Cardinality(Resolved(predictions')) <=
            Cardinality(Resolved(predictions)) + 1]_vars

\* both invocations hold the same rating update and each has handled it;
\* two records are resolved
C13_Witness ==
    /\ BothInFeedback
    /\ local.updates = peer.local.updates
    /\ local.updates # <<>>
    /\ local.idx > 1
    /\ peer.local.idx > 1
    /\ Cardinality(Resolved(predictions)) = 2

Printed(blocks) == {blocks[i].section : i \in {j \in 1..Len(blocks) : ~blocks[j].notice}}
Skipped(blocks) == {blocks[i].section : i \in {j \in 1..Len(blocks) : blocks[j].notice}}

\* C15: on n resolved records the analyzer prints no report for n = 0, the
\* accuracy metrics for every n >= 1, the correlation analysis exactly when
\* n >= 3 and the weight suggestions exactly when n >= 5, and for n >= 1 a
\* notice in place of each sub-report it skips.
C15_SubReportGating ==
    [][(~IsNull(report') /\ report' # report) =>
        LET n == Cardinality(Resolved(predictions))
            blocks == Val(report')
        IN  /\ n = 0 => Printed(blocks) = {}
            /\ n >= 1 => "performance" \in Printed(blocks)
            /\ "features" \in Printed(blocks) <=> n >= 3
            /\ "suggestions" \in Printed(blocks) <=> n >= 5
            /\ (n >= 1 /\ n < 3) => "features" \in Skipped(blocks)
            /\ (n >= 1 /\ n < 5) => "suggestions" \in Skipped(blocks)]_vars

\* a report on exactly five resolved records carries all three sub-reports
C15_Witness ==
    /\ ~IsNull(report)
    /\ Cardinality(Resolved(predictions)) = 5
    /\ Printed(Val(report)) = {"performance", "features", "suggestions"}

\* what reading a stored row back yields: the columns load_feedback_data
\* selects, the weather through json.loads
ReadBack(row) ==
    [predicted |-> row.predicted_quality,
     actual |-> row.actual_quality,
     weather |-> JsonLoads(row.weather_data)]

AllDefaults == <<>>

EditorLoggedIn == ~IsNull(currentUser) /\ Val(currentUser) \in allowedEditors

\* C18: in every state reachable by init, loginWithGitHub and logout calls
\* in any order (a second login without a logout between included), canEdit
\* and canExport are true only if currentUser is one of allowedEditors.
C18_EditOnlyForEditors ==
    (permissions.canEdit \/ permissions.canExport) => EditorLoggedIn

\* C20: canView and canRefresh are true in every reachable state of a
\* DashboardAuth: before init, after a failed and after a successful login,
\* and after logout.
C20_ViewAlways == permissions.canView /\ permissions.canRefresh

\* a login has just failed: nobody is logged in, viewing is still allowed
C20_Witness ==
    /\ ~IsNull(result)
    /\ Val(result).call = "login"
    /\ ~Val(result).success
    /\ IsNull(currentUser)
    /\ ~permissions.canEdit
    /\ permissions.canView

\* an entry for key was stored less than five minutes ago
StoredRecently(key) ==
    ~IsNull(cache[key]) /\ dateNow - Val(cache[key]).timestamp < 5

\* C19: request(endpoint, options) returns the stored response without a
\* fetch exactly when an entry for the same cache key was stored less than
\* cacheTimeout (5 minutes) ago, and otherwise performs a fetch; the cache
\* changes only when a fetch succeeded (to that response, stamped now) or
\* clearCache ran; a failed fetch throws and leaves the cache unchanged.
C19_CacheFiveMinutes ==
    [][/\ \A r \in Requests :
            LET key == cacheKey(r[1], r[2])
            IN  Request(r[1], r[2]) =>
                  IF StoredRecently(key)
                  THEN /\ inflight' = inflight
                       /\ cache' = cache
                       /\ settled' = Some([how |-> "cached", key |-> key,
                                           data |-> Some(Val(cache[key]).data)])
                  ELSE /\ inflight'[key] = inflight[key] + 1
                       /\ cache' = cache
       /\ \A key \in CacheKeys, fetched \in FetchResults :
            Settle(key, fetched) =>
                IF fetched.kind = "ok"
                THEN /\ cache'[key] = Some([data |-> Val(fetched.body),
                                            timestamp |-> dateNow])
                     /\ \A other \in CacheKeys \ {key} : cache'[other] = cache[other]
                ELSE /\ cache' = cache
                     /\ Val(settled').how = "threw"
       /\ cache' # cache =>
            \/ ClearCache
            \/ \E key \in CacheKeys, fetched \in FetchResults :
                  fetched.kind = "ok" /\ Settle(key, fetched)]_vars

\* a request was answered from an entry four minutes old, while the
\* differently keyed request has no entry
C19_Witness ==
    /\ ~IsNull(settled)
    /\ Val(settled).how = "cached"
    /\ ~IsNull(cache[Val(settled).key])
    /\ dateNow - Val(cache[Val(settled).key]).timestamp = 4
    /\ Val(settled).data = Some(Val(cache[Val(settled).key]).data)
    /\ \E other \in CacheKeys : IsNull(cache[other])

\* the rows the step resolves
NewlyResolved == Resolved(predictions') \ Resolved(predictions)

\* C21: a rating is attached only to a record that was created before the
\* rating message was sent: the record a feedback step resolves already
\* had its id when the message was sent, so a record an invocation appends
\* is never resolved by a rating that was in the channel when it started.
C21_RatingAfterRecord ==
    [][(FeedbackStep /\ CurIsRating) =>
        \A i \in NewlyResolved :
            predictions[i].id <= Val(CurUpdate.message).rows_then]_vars

\* the update that carries the i-th rating, the greeting being update 1
RatingUpdate(i) == i + 1

\* under the daily schedule the first record is never resolved: every pass
\* finds a record newer than the ratings it reads
FirstRecordStarves == 1 \notin Resolved(predictions)

Scored == pc = "store"
ScoredWeights == Val(local.weights)
ScoredWeather == Val(local.weather)
ScoredQuality == Val(local.predicted_quality)

\* the score was not cut by the clamp
Unclamped == 1 * Scale < ScoredQuality /\ ScoredQuality < 10 * Scale

\* the cloud and humidity terms, centred by half of the configured weight
HalfCentredCloud(w, d) ==
    (100 - Abs(d.cloud_cover - w.cloud_cover_optimal)) * w.cloud_cover_weight
        - w.cloud_cover_weight * 50
HalfCentredHumidity(w, d) ==
    (100 - d.humidity) * w.humidity_weight - w.humidity_weight * 50

\* C23: for every weight file, not only the defaults, the cloud and the
\* humidity terms are centred by half of the configured weight: the score
\* is the clamped sum of 5.0, these two terms, the visibility term and the
\* dust term.
C23_HalfWeightCentred ==
    Scored =>
        ScoredQuality =
            Clamp(5 * Scale + HalfCentredCloud(ScoredWeights, ScoredWeather)
                            + HalfCentredHumidity(ScoredWeights, ScoredWeather)
                            + VisibilityTerm(ScoredWeights, ScoredWeather)
                            + DustTerm(ScoredWeights, ScoredWeather))

\* what the visibility contributed to an unclamped score
ScoredVisibility ==
    ScoredQuality - 5 * Scale - CloudTerm(ScoredWeights, ScoredWeather)
                  - HumidityTerm(ScoredWeights, ScoredWeather)
                  - DustTerm(ScoredWeights, ScoredWeather)

\* min(visibility_km / 10, 1.0) * visibility_weight
Saturated(w, d) == (Min(d.visibility, 10000) * w.visibility_weight) \div 100

\* C24 (as stated): the visibility term is centred by the whole weight: 0 at
\* 10 km and more, negative below, never positive.
C24_VisibilityNeverPositive ==
    (Scored /\ Unclamped) =>
        /\ ScoredVisibility =
              Saturated(ScoredWeights, ScoredWeather)
                  - ScoredWeights.visibility_weight * 100
        /\ ScoredVisibility <= 0

\* C24 (amended): the visibility term is centred by the constant 1.0: at
\* 10 km and more it is visibility_weight - 1.0, which is +1.0 under the
\* default weight 2.0; below 10 km it is smaller, and never below -1.0.
C24_VisibilityCentredByOne ==
    (Scored /\ Unclamped) =>
        /\ ScoredVisibility = Saturated(ScoredWeights, ScoredWeather) - 1 * Scale
        /\ ScoredVisibility >= 0 - 1 * Scale
        /\ ScoredWeather.visibility >= 10000 =>
              ScoredVisibility = ScoredWeights.visibility_weight * 100 - 1 * Scale
        /\ (ScoredWeather.visibility >= 10000
              /\ ScoredWeights.visibility_weight = 200) =>
              ScoredVisibility = 1 * Scale

\* an unclamped score of a day with 15 km of visibility: the term is +1.0
C24_Witness ==
    /\ Scored
    /\ Unclamped
    /\ ScoredWeather.visibility = 15000
    /\ ScoredVisibility = 1 * Scale

\* a day with 2 km of visibility: the term is negative
C24_WitnessLow ==
    /\ Scored
    /\ Unclamped
    /\ ScoredWeather.visibility = 2000
    /\ ScoredVisibility < 0

\* Scenario A: 45 % clouds, 40 % humidity, 15 km, PM2.5 of 20
ScenarioA ==
    /\ Scored
    /\ ScoredWeights = default_weights
    /\ ScoredWeather.cloud_cover = 45
    /\ ScoredWeather.humidity = 40
    /\ ScoredWeather.visibility = 15000
    /\ ScoredWeather.pm25 = 20

\* C25: in Scenario A under the default weights the score is above the 5.0
\* baseline (it is 8.75) and each of the four terms is strictly positive.
C25_ScenarioA ==
    ScenarioA =>
        /\ ScoredQuality > 5 * Scale
        /\ ScoredQuality = 87500
        /\ CloudTerm(ScoredWeights, ScoredWeather) > 0
        /\ HumidityTerm(ScoredWeights, ScoredWeather) > 0
        /\ VisibilityTerm(ScoredWeights, ScoredWeather) > 0
        /\ DustTerm(ScoredWeights, ScoredWeather) > 0

\* Scenario A was scored
C25_Witness == ScenarioA /\ ScoredQuality = 87500

\* both of two invocations hold a score they computed
BothScored ==
    /\ ~IsNull(local.predicted_quality)
    /\ ~IsNull(peer.local.predicted_quality)

\* what the claim lets the score depend on
UsedWeights ==
    {"cloud_cover_optimal", "cloud_cover_weight", "humidity_weight",
     "visibility_weight", "dust_weight"}
UsedFields == {"cloud_cover", "humidity", "visibility", "pm25"}
AgreeOn(keys, f, g) == \A k \in keys : f[k] = g[k]

\* the two calls agree on every input the score may depend on
SameUsedInputs ==
    /\ AgreeOn(UsedWeights, Val(local.weights), Val(peer.local.weights))
    /\ AgreeOn(UsedFields, Val(local.weather), Val(peer.local.weather))

\* C26: two scoring calls whose inputs differ only in pollution_weight, in
\* the air quality index, the PM10 level, the description or the
\* temperature return the same score.
C26_ScoreBlindToUnused ==
    (BothScored /\ SameUsedInputs) =>
        local.predicted_quality = peer.local.predicted_quality

\* two calls that differ in pollution_weight, index and description
\* returned one score
C26_Witness ==
    /\ BothScored
    /\ SameUsedInputs
    /\ Val(local.weights).pollution_weight
         # Val(peer.local.weights).pollution_weight
    /\ Val(local.weather).aqi # Val(peer.local.weather).aqi
    /\ Val(local.weather).description # Val(peer.local.weather).description
    /\ local.predicted_quality = peer.local.predicted_quality

\* C27: in every reachable state and for every row of predictions,
\* feedback_time is set exactly when actual_quality is set: the one UPDATE
\* writes both columns.
C27_FeedbackFieldsTogether ==
    \A i \in 1..Len(predictions) :
        IsNull(predictions[i].feedback_time)
            <=> IsNull(predictions[i].actual_quality)

\* a rated row beside an unrated one
C27_Witness ==
    /\ \E i \in 1..Len(predictions) :
          /\ ~IsNull(predictions[i].actual_quality)
          /\ ~IsNull(predictions[i].feedback_time)
    /\ \E i \in 1..Len(predictions) :
          /\ IsNull(predictions[i].actual_quality)
          /\ IsNull(predictions[i].feedback_time)

\* nobody is logged in to the object a, and no token is stored
FullyLoggedOut(a) ==
    /\ IsNull(a.githubToken)
    /\ IsNull(a.currentUser)
    /\ ~a.permissions.canEdit
    /\ ~a.permissions.canExport
    /\ IsNull(a.localStorage.github_token)

\* the last call was a loginWithGitHub that returned success false
LoginFailed ==
    ~IsNull(result) /\ Val(result).call = "login" /\ ~Val(result).success

\* C28: a loginWithGitHub that fails (GitHub answers with an error status or
\* the request rejects) returns success false and leaves the object fully
\* logged out, whoever was logged in before the call, an allowed editor
\* included: no token, no user, no edit or export permission, no stored
\* token.
C28_FailedLoginLogsOut ==
    [][(Login /\ LoginFailed') => FullyLoggedOut(This')]_vars

\* a login has failed on a browser whose audit log holds an entry of the
\* editor: the object is logged out
C28_Witness ==
    /\ LoginFailed
    /\ FullyLoggedOut(This)
    /\ \E i \in 1..Len(StoredLog(localStorage)) :
          StoredLog(localStorage)[i].user \in allowedEditors

\* C29: when several requests for one endpoint and options are issued
\* concurrently on a cold or expired cache, at most one network fetch is
\* performed for that key: no key ever has two fetches in flight.
C29_OneFetchPerKey == \A key \in CacheKeys : inflight[key] <= 1

\* the stored audit log
AuditLog == StoredLog(localStorage)

\* the log holds the entries of the last calls, oldest first, none missing
MostRecentInOrder(log) ==
    /\ Len(log) <= AuditCap
    /\ \A i \in 1..Len(log) : log[i].ordinal = log[1].ordinal + (i - 1)
    /\ Len(log) < AuditCap => (log = <<>> \/ log[1].ordinal = 1)

\* C30: starting from an empty log, after any sequence of logAction calls
\* the stored log holds at most the cap of entries (1000, here AuditCap),
\* which are the most recent ones in chronological order; each logAction
\* appends one entry and drops only the single oldest entry, and only when
\* the cap would be exceeded.
C30_BoundedAuditLog ==
    [][LogAction =>
        /\ MostRecentInOrder(AuditLog')
        /\ AuditLog'[Len(AuditLog')].ordinal = NextOrdinal(AuditLog)
        /\ SubSeq(AuditLog', 1, Len(AuditLog') - 1) =
              (IF Len(AuditLog) = AuditCap THEN Tail(AuditLog) ELSE AuditLog)]_vars

\* the log is full and its oldest entries have been dropped
C30_Witness ==
    /\ Len(AuditLog) = AuditCap
    /\ AuditLog[1].ordinal > 2
    /\ MostRecentInOrder(AuditLog)

====
